---- MODULE Spec2Model ----
(***************************************************************************)
(* light_orm: a thin record mapper over a SQL store.                       *)
(*                                                                         *)
(* The model covers src/light_orm/light_orm.py: the query executor         *)
(* (do_query), the identity resolver (get_table_id and the cache kept in   *)
(* get_pk's default argument), the record accessor (get_pk, get_rec,       *)
(* get_pks, get_recs, get_or_make_pk, get_or_make_rec, save_rec) and the   *)
(* connection bootstrap (get_con_cur and its two backends).                *)
(*                                                                         *)
(* A Python dict is an ordered mapping: a sequence of <<key, value>> pairs *)
(* with distinct keys.  SQL text is kept structured (verb, projection,     *)
(* table, where-clauses with their placeholder marks) so that the store    *)
(* binds parameters to placeholders by position, as the driver does.       *)
(***************************************************************************)
EXTENDS Integers, Sequences, FiniteSets, TLC

\* ------------------------------------------------------------------ bounds
MaxRows == 2          \* rows the table may hold
MaxVal == 1           \* column values are None or 0..MaxVal
MaxIdentLen == 2      \* fields in a filter
MaxDefaultsLen == 1   \* fields in a defaults mapping
MaxCalls == 2         \* get_or_make calls counted from the empty table
MaxNameLen == 3       \* characters in a table name

\* Python None / SQL NULL, kept apart from every integer value 0..MaxVal
NULL == -1

Table == "est"        \* the table of the tests' schema

Paths == {"some.db", "pizza.db"}     \* filesystem locators
NetPath == "dbname=lo_test"          \* the locator the dispatch sends to psql
HeldPath == "est.db"  \* the file behind the cursor the caller starts with
NoneParked == [t \in {} |-> <<>>]
Values == {NULL} \cup (0..MaxVal)

VARIABLES
  cols,        \* the table's column list, identity column first (static schema)
  rows,        \* the table's rows: a set of functions column -> value
  table_id,    \* get_pk's __table_id: table name -> resolved identity column
  paramstyle,  \* the module global paramstyle
  last,        \* the caller's most recent call: its arguments and outcome
  calls,       \* the get_or_make calls made on a table that started empty
  fs,          \* the file system: path -> the database file there, if any
  pg,          \* the server-backed database
  lastOpen,    \* the most recent get_con_cur call: its arguments and outcome
  cur,         \* the cursor in use, named by the locator it was opened on
  parked,      \* locator -> the table behind each other handle the caller used
  procs        \* two callers inside get_or_make_pk: where each one stands

vars == <<cols, rows, table_id, paramstyle, last, calls, fs, pg, lastOpen,
          cur, parked, procs>>

\* the caller's handles and the callers inside get_or_make_pk
held == <<cur, parked, procs>>

\* what the record accessor leaves alone
boot == <<fs, pg, lastOpen, held>>

\* ------------------------------------------------------- ordered mappings
Range(s) == {s[i] : i \in 1..Len(s)}
Keys(m) == {m[i][1] : i \in 1..Len(m)}
HasKey(m, k) == \E i \in 1..Len(m) : m[i][1] = k
Get(m, k) == m[CHOOSE i \in 1..Len(m) : m[i][1] = k][2]
KeySeq(m) == [i \in 1..Len(m) |-> m[i][1]]
ValSeq(m) == [i \in 1..Len(m) |-> m[i][2]]

\* dict.update(other): a key already present keeps its position and takes the
\* new value; a new key is appended
RECURSIVE Update(_, _)
Update(m, other) ==
  IF other = <<>> THEN m
  ELSE LET k == other[1][1]
           v == other[1][2]
           m2 == IF HasKey(m, k)
                 THEN [i \in 1..Len(m) |-> IF m[i][1] = k THEN <<k, v>> ELSE m[i]]
                 ELSE Append(m, <<k, v>>)
       IN Update(m2, Tail(other))

\* every ordered mapping of at most n fields over the columns cs
Mappings(cs, n) ==
  {m \in UNION {[1..k -> cs \X Values] : k \in 0..n} :
     \A i, j \in 1..Len(m) : i # j => m[i][1] # m[j][1]}

ColSet == Range(cols)

PkCol == cols[1]      \* the column declared `integer primary key`

\* ------------------------------------------------------------ the store
\* What the driver's cursor does with one statement: cur.execute(q, vals)
\* followed, for a select, by cur.fetchall() and cur.description.  The store
\* behind the cursor takes its own backend's placeholder mark only: "?" for
\* the file-backed one (sqlite3), "%s" for the server-backed one (psycopg2).
Ok == "ok"
OperationalError == "OperationalError"   \* syntax error, no such table/column
ProgrammingError == "ProgrammingError"   \* wrong number of bindings
IntegrityError == "IntegrityError"       \* UNIQUE constraint failed

\* the placeholder marks of a statement, in text order
Marks(q) ==
  CASE q.verb = "select" ->
         SelectSeq([i \in 1..Len(q.where) |-> q.where[i].mark], LAMBDA x : x # "")
    [] q.verb = "insert" -> q.marks
    [] q.verb = "update" -> [i \in 1..Len(q.sets) |-> q.sets[i].mark]

\* the parameter bound to the i-th where-clause: placeholders bind by position
BoundAt(q, vals, i) ==
  vals[Cardinality({j \in 1..i : q.where[j].mark # ""})]

\* SQL comparison: `k is null` is true of a null; `k = v` is never true when
\* either side is null
ClauseHolds(q, vals, i, r) ==
  IF q.where[i].op = "is null"
  THEN r[q.where[i].col] = NULL
  ELSE /\ BoundAt(q, vals, i) # NULL
       /\ r[q.where[i].col] = BoundAt(q, vals, i)

Selected(q, vals, rs) ==
  {r \in rs : \A i \in 1..Len(q.where) : ClauseHolds(q, vals, i, r)}

\* a table scan returns rows in rowid order
RECURSIVE ScanOrder(_)
ScanOrder(rs) ==
  IF rs = {} THEN <<>>
  ELSE LET r == CHOOSE x \in rs : \A y \in rs : x[PkCol] <= y[PkCol]
       IN <<r>> \o ScanOrder(rs \ {r})

MaxPk(rs) == CHOOSE n \in {r[PkCol] : r \in rs} : \A r \in rs : r[PkCol] <= n

\* a store that gives every row it numbers the identity 1
NewPk_One(fields, vals, rs) ==
  IF /\ \E i \in 1..Len(fields) : fields[i] = PkCol
     /\ vals[CHOOSE i \in 1..Len(fields) : fields[i] = PkCol] # NULL
  THEN vals[CHOOSE i \in 1..Len(fields) : fields[i] = PkCol]
  ELSE 1

\* integer primary key: an explicit non-null value is kept, otherwise the
\* store assigns 1 to the first row and the largest rowid plus one after it
NewPk(fields, vals, rs) ==
  IF /\ \E i \in 1..Len(fields) : fields[i] = PkCol
     /\ vals[CHOOSE i \in 1..Len(fields) : fields[i] = PkCol] # NULL
  THEN vals[CHOOSE i \in 1..Len(fields) : fields[i] = PkCol]
  ELSE IF rs = {} THEN 1 ELSE MaxPk(rs) + 1

NewRow(fields, vals, rs) ==
  [c \in ColSet |->
     IF c = PkCol THEN NewPk(fields, vals, rs)
     ELSE IF \E i \in 1..Len(fields) : fields[i] = c
          THEN vals[CHOOSE i \in 1..Len(fields) : fields[i] = c]
          ELSE NULL]

Updated(q, vals, r) ==
  [c \in ColSet |->
     IF \E i \in 1..Len(q.sets) : q.sets[i].col = c
     THEN vals[CHOOSE i \in 1..Len(q.sets) : q.sets[i].col = c]
     ELSE r[c]]

\* an update whose where clause is ignored
UpdatedRows_All(q, vals, rs) == {Updated(q, vals, r) : r \in rs}

\* update ... where key = pk: the rows of that key are rewritten
UpdatedRows(q, vals, rs) ==
  {IF r[q.key] = q.pk THEN Updated(q, vals, r) ELSE r : r \in rs}

StoreResult(err, rs, fetched, description) ==
  [err |-> err, rows |-> rs, fetched |-> fetched, description |-> description]

Failed(err, rs) == StoreResult(err, rs, <<>>, <<>>)

ExecSelect(q, vals, rs) ==
  IF \/ q.text[4] # Table
     \/ q.text[2] \notin ColSet \cup {"*"}
     \/ \E i \in 1..Len(q.where) : q.where[i].col \notin ColSet
  THEN Failed(OperationalError, rs)
  ELSE LET flds == IF q.text[2] = "*" THEN cols ELSE <<q.text[2]>>
           hit == ScanOrder(Selected(q, vals, rs))
       IN StoreResult(Ok, rs,
            [i \in 1..Len(hit) |-> [j \in 1..Len(flds) |-> hit[i][flds[j]]]],
            flds)

ExecInsert(q, vals, rs) ==
  IF \/ q.table # Table
     \/ q.fields = <<>>
     \/ \E i \in 1..Len(q.fields) : q.fields[i] \notin ColSet
  THEN Failed(OperationalError, rs)
  ELSE IF \E r \in rs : r[PkCol] = NewPk(q.fields, vals, rs)
  THEN Failed(IntegrityError, rs)
  ELSE StoreResult(Ok, rs \cup {NewRow(q.fields, vals, rs)}, <<>>, <<>>)

ExecUpdate(q, vals, rs) ==
  IF \/ q.table # Table
     \/ q.sets = <<>>
     \/ q.key \notin ColSet
     \/ q.pk = NULL
     \/ \E i \in 1..Len(q.sets) : q.sets[i].col \notin ColSet
  THEN Failed(OperationalError, rs)
  ELSE IF \/ \E r \in UpdatedRows(q, vals, rs) : r[PkCol] = NULL
          \/ Cardinality({r[PkCol] : r \in UpdatedRows(q, vals, rs)})
               # Cardinality(rs)
  THEN Failed(IntegrityError, rs)
  ELSE StoreResult(Ok, UpdatedRows(q, vals, rs), <<>>, <<>>)

\* the placeholder mark of the backend behind the cursor in use: psycopg2's
\* for a locator holding dbname=, sqlite3's for a file
native == IF cur = NetPath THEN "%s" ELSE "?"

Dispatch(q, vals, rs, marks) ==
  IF \E i \in 1..Len(marks) : marks[i] # native
  THEN Failed(OperationalError, rs)
  ELSE IF Len(marks) # Len(vals)
  THEN Failed(ProgrammingError, rs)
  ELSE CASE q.verb = "select" -> ExecSelect(q, vals, rs)
         [] q.verb = "insert" -> ExecInsert(q, vals, rs)
         [] q.verb = "update" -> ExecUpdate(q, vals, rs)

\* cur.execute(q, vals) on the table rs
Execute(q, vals, rs) == Dispatch(q, vals, rs, Marks(q))

\* cur.executemany(q, batch): the statement once per parameter list, stopping
\* at the first that fails; what the earlier ones wrote stays written.  The
\* file-backed driver refuses a select.
RECURSIVE RunMany(_, _, _)
RunMany(q, batch, rs) ==
  IF batch = <<>> THEN StoreResult(Ok, rs, <<>>, <<>>)
  ELSE IF Execute(q, batch[1], rs).err # Ok
  THEN Failed(Execute(q, batch[1], rs).err, rs)
  ELSE RunMany(q, Tail(batch), Execute(q, batch[1], rs).rows)

ExecuteMany(q, batch, rs) ==
  IF q.verb = "select" THEN Failed(ProgrammingError, rs)
  ELSE RunMany(q, batch, rs)

\* ------------------------------------------------------- query executor
\* q.replace("?", paramstyle): every placeholder mark of the statement
WithMarks(q, style) ==
  CASE q.verb = "select" ->
         [q EXCEPT !.where =
            [i \in 1..Len(q.where) |->
               IF q.where[i].mark = "?"
               THEN [q.where[i] EXCEPT !.mark = style]
               ELSE q.where[i]]]
    [] q.verb = "insert" ->
         [q EXCEPT !.marks =
            [i \in 1..Len(q.marks) |-> IF q.marks[i] = "?" THEN style ELSE q.marks[i]]]
    [] q.verb = "update" ->
         [q EXCEPT !.sets =
            [i \in 1..Len(q.sets) |->
               IF q.sets[i].mark = "?"
               THEN [q.sets[i] EXCEPT !.mark = style]
               ELSE q.sets[i]]]

\* Dict(zip(flds, i))
Zip(flds, tuple) == [j \in 1..Len(flds) |-> <<flds[j], tuple[j]>>]

MalformedTable == "table defined without first field integer primary key?"

\* an executor that takes a failed statement for one without rows
QueryAnswer_Swallow(select, x, rs) ==
  IF ~select
  THEN [err |-> Ok, rows |-> x.rows, none |-> TRUE, ans |-> <<>>]
  ELSE IF x.fetched # <<>> /\ x.description = <<>>
  THEN [err |-> MalformedTable, rows |-> x.rows, none |-> FALSE, ans |-> <<>>]
  ELSE [err |-> Ok, rows |-> x.rows, none |-> FALSE,
        ans |-> [i \in 1..Len(x.fetched) |-> Zip(x.description, x.fetched[i])]]

\* what do_query does with the store's answer x: err is the exception raised
\* (Ok when none), rows the table afterwards, none whether the call returned
\* None, ans the mappings returned
QueryAnswer(select, x, rs) ==
  IF x.err # Ok
  THEN [err |-> x.err, rows |-> x.rows, none |-> FALSE, ans |-> <<>>]
  ELSE IF ~select
  THEN [err |-> Ok, rows |-> x.rows, none |-> TRUE, ans |-> <<>>]
  ELSE IF x.fetched # <<>> /\ x.description = <<>>
  THEN [err |-> MalformedTable, rows |-> x.rows, none |-> FALSE, ans |-> <<>>]
  ELSE [err |-> Ok, rows |-> x.rows, none |-> FALSE,
        ans |-> [i \in 1..Len(x.fetched) |-> Zip(x.description, x.fetched[i])]]

\* the statement do_query hands to the driver
Sent(q, style) == IF style # "?" THEN WithMarks(q, style) ELSE q

\* do_query(cur, q, vals) with vals a flat list of scalars, as in every call
\* the accessor makes: execute runs the statement
do_query(q, vals, rs) ==
  QueryAnswer(q.verb = "select", Execute(Sent(q, paramstyle), vals, rs), rs)

\* do_query(cur, q, vals) with vals a non-empty list of parameter lists:
\* executemany runs the statement
do_query_many(q, batch, rs) ==
  QueryAnswer(q.verb = "select", ExecuteMany(Sent(q, paramstyle), batch, rs), rs)

\* the except branch of do_query: the statement and the parameters printed
\* before the exception is raised again
Printed(q, vals, x) == IF x.err # Ok THEN <<Sent(q, paramstyle), vals>> ELSE <<>>

NotSingle == "did not produce a single record response"
NoQuery == [verb |-> "none"]

\* a do_one that takes the first of several rows
OneErr_First(r) ==
  IF r.err # Ok THEN r.err
  ELSE IF r.none \/ Len(r.ans) < 1 THEN NotSingle
  ELSE Ok

\* the exception do_one raises: do_query's, or its own unless do_query
\* returned exactly one mapping
OneErr(r) ==
  IF r.err # Ok THEN r.err
  ELSE IF r.none \/ Len(r.ans) # 1 THEN NotSingle
  ELSE Ok

OneAnswer(q, r) ==
  [err |-> OneErr(r), rows |-> r.rows,
   out |-> IF OneErr(r) = Ok THEN [kind |-> "rec", rec |-> r.ans[1]]
           ELSE [kind |-> "None"],
   about |-> IF OneErr(r) = NotSingle THEN q ELSE NoQuery]

\* do_one(cur, q, vals)
do_one(q, vals, rs) == OneAnswer(q, do_query(q, vals, rs))

\* ----------------------------------------------------- identity resolver
\* get_table_id(cur, table): "id" if the table has a column of that name,
\* else the table's own name
get_table_id(table) ==
  IF \E i \in 1..Len(cols) : cols[i] = "id" THEN "id" ELSE table

\* a resolver that probes the table on every call
Resolved_Always(cache, table) ==
  (table :> get_table_id(table)) @@ [x \in DOMAIN cache \ {table} |-> cache[x]]

\* get_pk's first lines: resolve once per table name, then reuse
Resolved(cache, table) ==
  IF table \in DOMAIN cache
  THEN cache
  ELSE cache @@ (table :> get_table_id(table))

\* ------------------------------------------------------- record accessor
\* what a call returns: None, an identity value, a record, or a list of either
None == [kind |-> "None"]
PkValue(v) == [kind |-> "pk", pk |-> v]
RecValue(r) == [kind |-> "rec", rec |-> r]
ListValue(kind, items) == [kind |-> kind, items |-> items]

\* Python truth value: None, 0 and empty containers are false
Truthy(v) ==
  CASE v.kind = "None" -> FALSE
    [] v.kind = "pk" -> v.pk # 0
    [] v.kind = "rec" -> v.rec # <<>>
    [] OTHER -> v.items # <<>>


\* the where element of the first release (src/light_orm.py): always `k=?`
comp_Equals(k, v) == [col |-> k, op |-> "=", mark |-> "?"]

\* comp(k, v): the where element for one filter field
comp(k, v) ==
  IF v = NULL
  THEN [col |-> k, op |-> "is null", mark |-> ""]
  ELSE [col |-> k, op |-> "=", mark |-> "?"]

\* q.replace(table_id, "*", 1) on the words of the select
ReplaceFirst(text, old, new) ==
  IF \E i \in 1..Len(text) : text[i] = old
  THEN [text EXCEPT ![CHOOSE i \in 1..Len(text) :
                        /\ text[i] = old
                        /\ \A j \in 1..(i - 1) : text[j] # old] = new]
  ELSE text

MoreThanOne == "More than on result"


\* a where clause built from the first filter field only
PkWhere_FirstOnly(ident) ==
  IF ident # <<>>
  THEN <<IF ident[1][2] = NULL
         THEN [col |-> ident[1][1], op |-> "is null", mark |-> ""]
         ELSE [col |-> ident[1][1], op |-> "=", mark |-> "?"]>>
  ELSE <<>>

PkWhere(ident) ==
  IF ident # <<>>
  THEN [i \in 1..Len(ident) |-> comp(ident[i][1], ident[i][2])]
  ELSE <<>>

PkVals(ident) ==
  IF ident # <<>>
  THEN SelectSeq(ValSeq(ident), LAMBDA v : v # NULL)
  ELSE <<>>

PkText(tid, table, return_obj) ==
  IF return_obj
  THEN ReplaceFirst(<<"select", tid, "from", table>>, tid, "*")
  ELSE <<"select", tid, "from", table>>

PkQuery(tid, table, ident, return_obj) ==
  [verb |-> "select", text |-> PkText(tid, table, return_obj),
   where |-> PkWhere(ident)]


\* get_pk without its check for more than one row
PkErr_Unchecked(res, multi) == res.err

\* the exception get_pk raises: the executor's, or more than one row
\* without multi
PkErr(res, multi) ==
  IF res.err # Ok THEN res.err
  ELSE IF Len(res.ans) > 1 /\ ~multi THEN MoreThanOne
  ELSE Ok


\* multi answered from the first row alone
PkOut_FirstOnly(res, tid, return_obj, multi) ==
  IF res.ans # <<>>
  THEN IF multi
       THEN IF return_obj
            THEN ListValue("recs", <<res.ans[1]>>)
            ELSE ListValue("pks", <<Get(res.ans[1], tid)>>)
       ELSE IF return_obj
            THEN RecValue(res.ans[1])
            ELSE PkValue(Get(res.ans[1], tid))
  ELSE None

\* `return res[0][table_id] or None`: a zero identity returned as None
PkOut_Falsy(res, tid, return_obj, multi) ==
  IF res.ans # <<>>
  THEN IF multi
       THEN IF return_obj
            THEN ListValue("recs", res.ans)
            ELSE ListValue("pks", [i \in 1..Len(res.ans) |-> Get(res.ans[i], tid)])
       ELSE IF return_obj
            THEN RecValue(res.ans[1])
            ELSE IF Get(res.ans[1], tid) = 0 THEN [kind |-> "None"]
                 ELSE [kind |-> "pk", pk |-> Get(res.ans[1], tid)]
  ELSE None

\* the value get_pk returns from the rows res.ans
PkOut(res, tid, return_obj, multi) ==
  IF res.ans # <<>>
  THEN IF multi
       THEN IF return_obj
            THEN ListValue("recs", res.ans)
            ELSE ListValue("pks", [i \in 1..Len(res.ans) |-> Get(res.ans[i], tid)])
       ELSE IF return_obj
            THEN RecValue(res.ans[1])
            ELSE PkValue(Get(res.ans[1], tid))
  ELSE None

PkResult(cache, tid, q, vals, res, return_obj, multi) ==
  [cache |-> cache, err |-> PkErr(res, multi),
   out |-> IF PkErr(res, multi) = Ok THEN PkOut(res, tid, return_obj, multi)
           ELSE None,
   q |-> q, vals |-> vals, ans |-> res.ans]

PkRun(cache, tid, q, vals, rs, return_obj, multi) ==
  PkResult(cache, tid, q, vals, do_query(q, vals, rs), return_obj, multi)

PkLookup(cache, rs, table, ident, return_obj, multi) ==
  PkRun(cache, cache[table], PkQuery(cache[table], table, ident, return_obj),
        PkVals(ident), rs, return_obj, multi)

\* get_pk(cur, table, ident, return_obj, multi, __table_id) on the table rs
\* with the cache `cache`: the cache afterwards, the exception raised (Ok when
\* none), the value returned, and the query issued with the rows it fetched
get_pk(cache, rs, table, ident, return_obj, multi) ==
  PkLookup(Resolved(cache, table), rs, table, ident, return_obj, multi)

get_rec(cache, rs, table, ident, multi) ==
  get_pk(cache, rs, table, ident, TRUE, multi)

\* get_pks / get_recs: an absent ident (None) becomes the empty mapping
get_pks(cache, rs, table, absent, ident, return_obj) ==
  get_pk(cache, rs, table, IF absent THEN <<>> ELSE ident, return_obj, TRUE)

get_recs(cache, rs, table, absent, ident) ==
  get_rec(cache, rs, table, IF absent THEN <<>> ELSE ident, TRUE)

InsertQuery(table, d) ==
  [verb |-> "insert", table |-> table, fields |-> KeySeq(d),
   marks |-> [i \in 1..Len(d) |-> "?"]]

MakeResult(cache, rs, err, out, created) ==
  [cache |-> cache, rows |-> rs, err |-> err, out |-> out, created |-> created]

\* the last line of get_or_make_pk: the lookup keyed on the merged fields
MakeRelookup(made, rs) ==
  MakeResult(made.cache, rs, made.err, made.out, made.err = Ok)

\* the else branch of get_or_make_pk: insert, then look up again
MakeInsert(cache, ins, rs, table, d, return_obj) ==
  IF ins.err # Ok
  THEN MakeResult(cache, rs, ins.err, None, FALSE)
  ELSE MakeRelookup(get_pk(cache, ins.rows, table, d, return_obj, FALSE),
                    ins.rows)

\* `if res:` decides between returning what was found and inserting
MakeFound(found, rs, table, d, return_obj) ==
  IF found.err # Ok
  THEN MakeResult(found.cache, rs, found.err, None, FALSE)
  ELSE IF Truthy(found.out)
  THEN MakeResult(found.cache, rs, Ok, found.out, FALSE)
  ELSE MakeInsert(found.cache, do_query(InsertQuery(table, d), ValSeq(d), rs),
                  rs, table, d, return_obj)

\* get_or_make_pk(cur, table, ident, defaults, return_obj)
get_or_make_pk(cache, rs, table, ident, defaults, return_obj) ==
  MakeFound(get_pk(cache, rs, table, ident, return_obj, FALSE),
            rs, table, Update(defaults, ident), return_obj)

get_or_make_rec(cache, rs, table, ident, defaults) ==
  get_or_make_pk(cache, rs, table, ident, defaults, TRUE)

KeyError == "KeyError"
IndexError == "IndexError"

SaveQuery(table, tid, kept, pk) ==
  [verb |-> "update", table |-> table,
   sets |-> [i \in 1..Len(kept) |-> [col |-> kept[i][1], mark |-> "?"]],
   key |-> tid, pk |-> pk]


\* the values bound in the reverse of the order of the set clauses
SaveRun_Reversed(table, tid, kept, pk, rs) ==
  do_query([verb |-> "update", table |-> table,
            sets |-> [i \in 1..Len(kept) |-> [col |-> kept[i][1], mark |-> "?"]],
            key |-> tid, pk |-> pk],
           [i \in 1..Len(kept) |-> kept[Len(kept) + 1 - i][2]], rs)

SaveRun(table, tid, kept, pk, rs) ==
  do_query(SaveQuery(table, tid, kept, pk), ValSeq(kept), rs)

SaveKeyed(rec, table, tid, rs) ==
  IF ~HasKey(rec, tid)
  THEN [err |-> KeyError, rows |-> rs, none |-> FALSE, ans |-> <<>>]
  ELSE SaveRun(table, tid, SelectSeq(rec, LAMBDA kv : kv[1] # tid),
               Get(rec, tid), rs)

\* save_rec(cur, rec, table): hint is the table argument, "" when it is None
save_rec(rs, rec, hint) ==
  IF hint = ""
  THEN IF rec = <<>>
       THEN [err |-> IndexError, rows |-> rs, none |-> FALSE, ans |-> <<>>]
       ELSE SaveKeyed(rec, rec[1][1], rec[1][1], rs)
  ELSE SaveKeyed(rec, hint, "id", rs)

\* -------------------------------------------------- connection bootstrap
\* A schema is a list of DDL statements; each creates one named object.
\* DB_SQL is the tests' schema.  A schema of None is the empty list: both
\* backends test it with `schema or []` / `if schema`.
Ddl(kind, name) == [kind |-> kind, name |-> name]
DB_SQL == <<Ddl("create table", "est"), Ddl("create table", "site"),
            Ddl("create index", "site_site_idx")>>
Schemas == {<<>>, DB_SQL}


\* a database: the objects it holds and every DDL statement executed on it
NoFile == [exists |-> FALSE, objects |-> {}, executed |-> <<>>]

\* cur.execute(sql) for each statement in turn: a statement creating an object
\* that already exists raises, and the loop stops there
RECURSIVE RunDdl(_, _, _)
RunDdl(stmts, objects, executed) ==
  IF stmts = <<>>
  THEN [err |-> Ok, objects |-> objects, executed |-> executed]
  ELSE IF stmts[1].name \in objects
  THEN [err |-> OperationalError, objects |-> objects,
        executed |-> Append(executed, stmts[1])]
  ELSE RunDdl(Tail(stmts), objects \cup {stmts[1].name},
              Append(executed, stmts[1]))

Opened(backend, dbpath, schema, read_only, err, existed, connected, before) ==
  [op |-> "get_con_cur", backend |-> backend, dbpath |-> dbpath,
   schema |-> schema, read_only |-> read_only, err |-> err,
   existed |-> existed, connected |-> connected, before |-> before]

ReadOnlyMissing == "doesn't exist and requested read-only"


\* get_con_cur_sqlite without its read-only guard
RefuseOpen_Never(existed, read_only) == FALSE

\* the guard of get_con_cur_sqlite: a missing target asked for read-only
RefuseOpen(existed, read_only) == ~existed /\ read_only


\* get_con_cur_sqlite running the schema on every open
ApplySchema_Always(existed) == TRUE

\* whether get_con_cur_sqlite runs the schema
ApplySchema(existed) == ~existed

\* sqlite3.connect: mode=ro needs the file to exist; the default mode creates
\* an empty file
SqliteConnect(f, read_only) ==
  IF f.exists THEN [err |-> Ok, file |-> f]
  ELSE IF read_only THEN [err |-> OperationalError, file |-> f]
  ELSE [err |-> Ok, file |-> [f EXCEPT !.exists = TRUE]]

\* the schema loop of get_con_cur_sqlite on the connected file
SqliteSchema(f, schema, existed) ==
  IF ApplySchema(existed)
  THEN RunDdl(schema, f.objects, f.executed)
  ELSE [err |-> Ok, objects |-> f.objects, executed |-> f.executed]

SqliteOpened(dbpath, schema, read_only, existed, con, ran) ==
  IF con.err # Ok
  THEN /\ fs' = fs
       /\ lastOpen' = Opened("sqlite", dbpath, schema, read_only, con.err,
                             existed, TRUE, fs[dbpath].executed)
  ELSE /\ fs' = [fs EXCEPT ![dbpath] =
                   [exists |-> TRUE, objects |-> ran.objects,
                    executed |-> ran.executed]]
       /\ lastOpen' = Opened("sqlite", dbpath, schema, read_only, ran.err,
                             existed, TRUE, fs[dbpath].executed)

\* get_con_cur_sqlite(filepath, schema, read_only)
get_con_cur_sqlite(dbpath, schema, read_only) ==
  /\ IF RefuseOpen(fs[dbpath].exists, read_only)
     THEN /\ fs' = fs
          /\ lastOpen' = Opened("sqlite", dbpath, schema, read_only,
                                ReadOnlyMissing, FALSE, FALSE,
                                fs[dbpath].executed)
     ELSE SqliteOpened(dbpath, schema, read_only, fs[dbpath].exists,
                       SqliteConnect(fs[dbpath], read_only),
                       SqliteSchema(SqliteConnect(fs[dbpath], read_only).file,
                                    schema, fs[dbpath].exists))
  /\ UNCHANGED <<pg, paramstyle>>

UnboundLocalError == "UnboundLocalError"

HasCreateTable(schema) ==
  \E i \in 1..Len(schema) : schema[i].kind = "create table"

\* the loop that finds the first `create table` statement: sql.split()[2]
FirstTable(schema) ==
  schema[CHOOSE i \in 1..Len(schema) :
           /\ schema[i].kind = "create table"
           /\ \A j \in 1..(i - 1) : schema[j].kind # "create table"].name

\* begin, the schema, commit: one transaction, so a failing statement leaves
\* no object behind
PsqlSchema(schema) ==
  IF schema = <<>> \/ FirstTable(schema) \in pg.objects
  THEN [err |-> Ok, objects |-> pg.objects, executed |-> pg.executed]
  ELSE IF RunDdl(schema, pg.objects, pg.executed).err = Ok
  THEN RunDdl(schema, pg.objects, pg.executed)
  ELSE [RunDdl(schema, pg.objects, pg.executed) EXCEPT !.objects = pg.objects]

PsqlOpened(dbpath, schema, read_only, ran) ==
  /\ pg' = [objects |-> ran.objects, executed |-> ran.executed]
  /\ paramstyle' = IF ran.err = Ok THEN "%s" ELSE paramstyle
  /\ lastOpen' = Opened("psql", dbpath, schema, read_only, ran.err,
                        schema # <<>> /\ FirstTable(schema) \in pg.objects,
                        TRUE, pg.executed)

\* get_con_cur_psql(dbpath, schema, read_only)
get_con_cur_psql(dbpath, schema, read_only) ==
  /\ IF schema # <<>> /\ ~HasCreateTable(schema)
     THEN /\ pg' = pg
          /\ paramstyle' = paramstyle
          /\ lastOpen' = Opened("psql", dbpath, schema, read_only,
                                UnboundLocalError, FALSE, TRUE, pg.executed)
     ELSE PsqlOpened(dbpath, schema, read_only, PsqlSchema(schema))
  /\ UNCHANGED fs

\* get_con_cur(dbpath, schema, read_only): `"dbname=" not in dbpath`
get_con_cur(dbpath, schema, read_only) ==
  IF dbpath \in Paths
  THEN get_con_cur_sqlite(dbpath, schema, read_only)
  ELSE get_con_cur_psql(dbpath, schema, read_only)

\* ------------------------------------------------------------ the caller
\* The tests' table est(est, site, date) and demo_id.py's layout, where the
\* identity column is named id.
ColsByName == <<"est", "site", "date">>
ColsById == <<"id", "site", "date">>

Idents == Mappings(ColSet, MaxIdentLen)
Defaults == Mappings(ColSet, MaxDefaultsLen)

NoCall == [op |-> "none"]
Lookups == {"get_pk", "get_rec", "get_pks", "get_recs"}
Makers == {"get_or_make_pk", "get_or_make_rec"}

Init ==
  /\ cols \in {ColsByName, ColsById}
  /\ rows = {}
  /\ table_id = [t \in {} |-> ""]
  /\ paramstyle = "?"
  /\ last = NoCall
  /\ calls = <<>>
  /\ fs = [p \in Paths |-> NoFile]
  /\ pg = [objects |-> {}, executed |-> <<>>]
  /\ lastOpen = [op |-> "none"]
  /\ cur = HeldPath
  /\ parked = NoneParked
  /\ procs = <<>>

\* a lookup returns r to the caller
Looked(op, ident, absent, return_obj, multi, r) ==
  /\ table_id' = r.cache
  /\ last' = [op |-> op, ident |-> ident, absent |-> absent,
              return_obj |-> return_obj, multi |-> multi, err |-> r.err,
              out |-> r.out, q |-> r.q, vals |-> r.vals, ans |-> r.ans,
              probed |-> Table \notin DOMAIN table_id]

GetPk ==
  /\ last.op = "none"
  /\ \E ident \in Idents, return_obj \in BOOLEAN, multi \in BOOLEAN :
       Looked("get_pk", ident, FALSE, return_obj, multi,
              get_pk(table_id, rows, Table, ident, return_obj, multi))
  /\ UNCHANGED <<cols, rows, paramstyle, calls, boot>>

GetRec ==
  /\ last.op = "none"
  /\ \E ident \in Idents, multi \in BOOLEAN :
       Looked("get_rec", ident, FALSE, TRUE, multi,
              get_rec(table_id, rows, Table, ident, multi))
  /\ UNCHANGED <<cols, rows, paramstyle, calls, boot>>

\* ident is None (absent) or a mapping
GetPks ==
  /\ last.op = "none"
  /\ \E absent \in BOOLEAN, return_obj \in BOOLEAN :
       \E ident \in IF absent THEN {<<>>} ELSE Idents :
         Looked("get_pks", ident, absent, return_obj, TRUE,
                get_pks(table_id, rows, Table, absent, ident, return_obj))
  /\ UNCHANGED <<cols, rows, paramstyle, calls, boot>>

GetRecs ==
  /\ last.op = "none"
  /\ \E absent \in BOOLEAN :
       \E ident \in IF absent THEN {<<>>} ELSE Idents :
         Looked("get_recs", ident, absent, TRUE, TRUE,
                get_recs(table_id, rows, Table, absent, ident))
  /\ UNCHANGED <<cols, rows, paramstyle, calls, boot>>

NoFirst == [err |-> Ok, out |-> None, created |-> FALSE]

\* get_or_make_pk returns r to the caller; an insert that would take the
\* table past MaxRows is not explored
Made(op, ident, defaults, return_obj, again, first, r) ==
  /\ Cardinality(r.rows) <= MaxRows
  /\ table_id' = r.cache
  /\ rows' = r.rows
  /\ last' = [op |-> op, ident |-> ident, defaults |-> defaults,
              return_obj |-> return_obj, err |-> r.err, out |-> r.out,
              created |-> r.created, before |-> rows, again |-> again,
              first |-> first]

GetOrMakePk ==
  /\ last.op = "none"
  /\ \E ident \in Idents, defaults \in Defaults, return_obj \in BOOLEAN :
       Made("get_or_make_pk", ident, defaults, return_obj, FALSE, NoFirst,
            get_or_make_pk(table_id, rows, Table, ident, defaults, return_obj))
  /\ UNCHANGED <<cols, paramstyle, calls, boot>>

GetOrMakeRec ==
  /\ last.op = "none"
  /\ \E ident \in Idents, defaults \in Defaults :
       Made("get_or_make_rec", ident, defaults, TRUE, FALSE, NoFirst,
            get_or_make_rec(table_id, rows, Table, ident, defaults))
  /\ UNCHANGED <<cols, paramstyle, calls, boot>>

\* the same call made a second time, straight after the first
GetOrMakeAgain ==
  /\ last.op \in Makers
  /\ ~last.again
  /\ Made(last.op, last.ident, last.defaults, last.return_obj, TRUE,
          [err |-> last.err, out |-> last.out, created |-> last.created],
          get_or_make_pk(table_id, rows, Table, last.ident, last.defaults,
                         last.return_obj))
  /\ UNCHANGED <<cols, paramstyle, calls, boot>>

\* the records a lookup handed to the caller
ReadRecs ==
  IF last.op \in Lookups /\ last.err = Ok
  THEN IF last.out.kind = "rec" THEN {last.out.rec}
       ELSE IF last.out.kind = "recs" THEN Range(last.out.items)
       ELSE {}
  ELSE {}

SetField(rec, k, v) ==
  [i \in 1..Len(rec) |-> IF rec[i][1] = k THEN <<k, v>> ELSE rec[i]]

\* the caller changes at most one field (k = "": none) of a record it read
\* and saves it, with or without the table argument
Saved(read, rec, k, hint, r) ==
  /\ rows' = r.rows
  /\ last' = [op |-> "save_rec", read |-> read, rec |-> rec, field |-> k,
              hint |-> hint, err |-> r.err, before |-> rows]

SaveRec ==
  /\ last.op \in Lookups
  /\ \E read \in ReadRecs, k \in ColSet \cup {""}, v \in Values, hint \in {"", Table} :
       Saved(read, SetField(read, k, v), k, hint,
             save_rec(rows, SetField(read, k, v), hint))
  /\ UNCHANGED <<cols, table_id, paramstyle, calls, boot>>

\* the caller moves on to an unrelated call
Forget ==
  /\ last.op # "none"
  /\ last' = NoCall
  /\ UNCHANGED <<cols, rows, table_id, paramstyle, calls, boot>>

Next ==
  \/ GetPk
  \/ GetRec
  \/ GetPks
  \/ GetRecs
  \/ GetOrMakePk
  \/ GetOrMakeRec
  \/ GetOrMakeAgain
  \/ SaveRec
  \/ Forget

Spec == Init /\ [][Next]_vars

\* ------------------------------------------------ opening the databases
GetConCur ==
  /\ \E dbpath \in Paths \cup {NetPath}, schema \in Schemas, read_only \in BOOLEAN :
       get_con_cur(dbpath, schema, read_only)
  /\ UNCHANGED <<cols, rows, table_id, last, calls, held>>

NextOpen == GetConCur

SpecOpen == Init /\ [][NextOpen]_vars

\* --------------------------------------- counting rows from an empty table
\* One get_or_make call after another on the table, each recorded in calls.
Counted(ident, defaults, r) ==
  /\ rows' = r.rows
  /\ table_id' = r.cache
  /\ calls' = Append(calls, [ident |-> ident, defaults |-> defaults,
                             err |-> r.err, created |-> r.created])

CountedMakePk ==
  /\ Len(calls) < MaxCalls
  /\ \E ident \in Idents, defaults \in Defaults :
       Counted(ident, defaults,
               get_or_make_pk(table_id, rows, Table, ident, defaults, FALSE))
  /\ UNCHANGED <<cols, paramstyle, last, boot>>

CountedMakeRec ==
  /\ Len(calls) < MaxCalls
  /\ \E ident \in Idents, defaults \in Defaults :
       Counted(ident, defaults,
               get_or_make_rec(table_id, rows, Table, ident, defaults))
  /\ UNCHANGED <<cols, paramstyle, last, boot>>

NextCount ==
  \/ CountedMakePk
  \/ CountedMakeRec

SpecCount == Init /\ [][NextCount]_vars

\* ------------------------------------------- raw queries on any table
\* Every table of at most n rows with distinct, non-null identities.
PkValues == 0..MaxRows

AllRows ==
  {r \in [ColSet -> Values \cup PkValues] :
     /\ r[PkCol] \in PkValues
     /\ \A c \in ColSet \ {PkCol} : r[c] \in Values}

RECURSIVE Tables(_)
Tables(n) ==
  IF n = 0 THEN {{}}
  ELSE Tables(n - 1) \cup
       UNION {{t \cup {r} : r \in {x \in AllRows :
                                     \A y \in t : y[PkCol] # x[PkCol]}} :
              t \in Tables(n - 1)}

InitAny ==
  /\ cols \in {ColsByName, ColsById}
  /\ rows \in Tables(MaxRows)
  /\ table_id = [t \in {} |-> ""]
  /\ paramstyle = "?"
  /\ last = NoCall
  /\ calls = <<>>
  /\ fs = [p \in Paths |-> NoFile]
  /\ pg = [objects |-> {}, executed |-> <<>>]
  /\ lastOpen = [op |-> "none"]
  /\ cur = HeldPath
  /\ parked = NoneParked
  /\ procs = <<>>

\* the statements a caller passes: selects and inserts on the table or on a
\* table that does not exist, with the parameters they need or none at all
RawSelects ==
  {[q |-> PkQuery(PkCol, t, ident, return_obj), vals |-> PkVals(ident),
    ident |-> ident, return_obj |-> return_obj] :
     t \in {Table, "nosuch"}, ident \in Idents, return_obj \in BOOLEAN}

RawInserts ==
  {[q |-> InsertQuery(Table, d), vals |-> IF bound THEN ValSeq(d) ELSE <<>>,
    ident |-> d, return_obj |-> FALSE] :
     d \in Idents, bound \in BOOLEAN}

RawCalls == RawSelects \cup RawInserts

\* do_query returns r to the caller; x is what the driver's execute did
Queried(op, c, vals, x, r) ==
  /\ rows' = r.rows
  /\ last' = [op |-> op, q |-> c.q, vals |-> vals, ident |-> c.ident,
              return_obj |-> c.return_obj, raised |-> x.err,
              printed |-> Printed(c.q, vals, x), err |-> r.err,
              none |-> r.none, ans |-> r.ans, before |-> rows,
              written |-> x.rows]

DoQuery ==
  /\ last.op = "none"
  /\ \E c \in RawCalls :
       Queried("do_query", c, c.vals,
               Execute(Sent(c.q, paramstyle), c.vals, rows),
               do_query(c.q, c.vals, rows))
  /\ UNCHANGED <<cols, table_id, paramstyle, calls, boot>>

\* the same statement for each of two parameter lists
DoQueryMany ==
  /\ last.op = "none"
  /\ \E c \in {x \in RawCalls : x.vals # <<>>}, w \in BOOLEAN :
       Queried("do_query_many", c,
               <<c.vals, IF w THEN c.vals ELSE Tail(c.vals)>>,
               ExecuteMany(Sent(c.q, paramstyle),
                           <<c.vals, IF w THEN c.vals ELSE Tail(c.vals)>>, rows),
               do_query_many(c.q, <<c.vals, IF w THEN c.vals ELSE Tail(c.vals)>>,
                             rows))
  /\ UNCHANGED <<cols, table_id, paramstyle, calls, boot>>

\* do_one returns r to the caller
OneDone(c, x, r) ==
  /\ rows' = r.rows
  /\ last' = [op |-> "do_one", q |-> c.q, vals |-> c.vals, ident |-> c.ident,
              return_obj |-> c.return_obj, raised |-> x.err, err |-> r.err,
              out |-> r.out, about |-> r.about, before |-> rows]

DoOne ==
  /\ last.op = "none"
  /\ \E c \in RawCalls :
       OneDone(c, Execute(Sent(c.q, paramstyle), c.vals, rows),
               do_one(c.q, c.vals, rows))
  /\ UNCHANGED <<cols, table_id, paramstyle, calls, boot>>

NextQuery ==
  \/ DoQuery
  \/ DoQueryMany
  \/ DoOne

SpecQuery == InitAny /\ [][NextQuery]_vars

\* ------------------------------------------------- several handles
\* The caller opens further handles and passes the cursor of any handle whose
\* database holds the table; __table_id and paramstyle belong to the module,
\* not to a handle.
OpenTargets == {"some.db", NetPath}

HasTable(t) ==
  IF t = HeldPath THEN TRUE
  ELSE IF t = NetPath THEN paramstyle = "%s" /\ Table \in pg.objects
  ELSE Table \in fs[t].objects

\* the cursor in use becomes the one on t, whose table is store
Switch(t, store) ==
  /\ cur' = t
  /\ cols' = store.cols
  /\ rows' = store.rows
  /\ parked' = (cur :> [cols |-> cols, rows |-> rows])
                 @@ [x \in DOMAIN parked \ {t} |-> parked[x]]

\* a table not used before follows either identity convention
UseHandle ==
  /\ last.op = "none"
  /\ \E t \in {x \in OpenTargets \cup {HeldPath} : x # cur /\ HasTable(x)},
        c \in {ColsByName, ColsById} :
       Switch(t, IF t \in DOMAIN parked THEN parked[t]
                 ELSE [cols |-> c, rows |-> {}])
  /\ UNCHANGED <<table_id, paramstyle, last, calls, fs, pg, lastOpen, procs>>

OpenHandle ==
  /\ last.op = "none"
  /\ \E dbpath \in OpenTargets, schema \in Schemas :
       get_con_cur(dbpath, schema, FALSE)
  /\ UNCHANGED <<cols, rows, table_id, last, calls, held>>

NextHandles ==
  \/ OpenHandle
  \/ UseHandle
  \/ GetPk
  \/ Forget

SpecHandles == Init /\ [][NextHandles]_vars

\* ------------------------------------------------ the text of a lookup
\* get_pk builds its select as a string and, for return_obj, replaces in it
\* with str.replace.  Here the string is a sequence of characters and a table
\* name any word over the letters of est, id and select.
Letters == {"e", "s", "t", "i", "d", "l", "c"}

Names == UNION {[1..n -> Letters] : n \in 1..MaxNameLen}

Id == <<"i", "d">>
Star == <<"*">>
SelectSp == <<"s", "e", "l", "e", "c", "t", " ">>
SpFromSp == <<" ", "f", "r", "o", "m", " ">>
SpWhereSp == <<" ", "w", "h", "e", "r", "e", " ">>
EqMark == <<"=", "?">>

\* where old first occurs in text, 0 when it does not
Find(text, old) ==
  IF \E i \in 1..(Len(text) - Len(old) + 1) :
       SubSeq(text, i, i + Len(old) - 1) = old
  THEN CHOOSE i \in 1..(Len(text) - Len(old) + 1) :
         /\ SubSeq(text, i, i + Len(old) - 1) = old
         /\ \A j \in 1..(i - 1) : SubSeq(text, j, j + Len(old) - 1) # old
  ELSE 0

\* text.replace(old, new, 1)
StrReplaceOnce(text, old, new) ==
  IF Find(text, old) = 0 THEN text
  ELSE SubSeq(text, 1, Find(text, old) - 1) \o new
       \o SubSeq(text, Find(text, old) + Len(old), Len(text))

\* f" where {vals}" for a filter on the one column col, "" for no filter
WhereChars(col, filtered) ==
  IF filtered THEN SpWhereSp \o col \o EqMark ELSE <<>>

\* f"select {table_id} from {table}{where}"
SelectChars(tid, table, where) == SelectSp \o tid \o SpFromSp \o table \o where

\* the q of get_pk as a string
PkChars(tid, table, where, return_obj) ==
  IF return_obj
  THEN StrReplaceOnce(SelectChars(tid, table, where), tid, Star)
  ELSE SelectChars(tid, table, where)

\* get_pk builds q for a table whose identity column is tid
Built(table, tid, where, return_obj) ==
  last' = [op |-> "pk_text", table |-> table, tid |-> tid, where |-> where,
           return_obj |-> return_obj,
           q |-> PkChars(tid, table, where, return_obj)]

BuildText ==
  /\ last.op = "none"
  /\ \E table \in Names, by_id \in BOOLEAN, filtered \in BOOLEAN,
        return_obj \in BOOLEAN :
       Built(table, IF by_id THEN Id ELSE table,
             WhereChars(IF by_id THEN Id ELSE table, filtered), return_obj)
  /\ UNCHANGED <<cols, rows, table_id, paramstyle, calls, boot>>

NextText == BuildText

SpecText == Init /\ [][NextText]_vars

\* ------------------------------------------------ saving any record
\* save_rec on any table with any mapping over the table's columns, complete
\* or not, with or without the table argument
SaveAny ==
  /\ last.op = "none"
  /\ \E rec \in Mappings(ColSet, Len(cols)), hint \in {"", Table} :
       Saved(rec, rec, "", hint, save_rec(rows, rec, hint))
  /\ UNCHANGED <<cols, table_id, paramstyle, calls, boot>>

NextSave == SaveAny

SpecSave == InitAny /\ [][NextSave]_vars

\* --------------------------------------- two callers in get_or_make_pk
\* Two callers make the same get_or_make_pk call on the same store.  Nothing
\* in get_or_make_pk holds a lock or a transaction across its statements, so
\* the callers' statements interleave one by one: the lookup, the insert and
\* the second lookup of each.
Callers == {1, 2}

Standing(pc, ident, defaults, return_obj, saw, err, out, created) ==
  [pc |-> pc, ident |-> ident, defaults |-> defaults,
   return_obj |-> return_obj, saw |-> saw, err |-> err, out |-> out,
   created |-> created]

\* caller c moves to pc; saw is the table its first lookup ran on
Moved(c, pc, saw, err, out, created) ==
  procs' = [procs EXCEPT ![c] =
              Standing(pc, procs[c].ident, procs[c].defaults,
                       procs[c].return_obj, saw, err, out, created)]

RaceStart ==
  /\ procs = <<>>
  /\ \E ident \in Idents, defaults \in Defaults, return_obj \in BOOLEAN :
       procs' = [c \in Callers |->
                   Standing("lookup", ident, defaults, return_obj, {}, Ok,
                            None, FALSE)]
  /\ UNCHANGED <<cols, rows, table_id, paramstyle, last, calls, fs, pg,
                 lastOpen, cur, parked>>

\* res = get_pk(...); if res: return res, False
RaceLooked(c, r) ==
  /\ table_id' = r.cache
  /\ IF r.err # Ok THEN Moved(c, "done", rows, r.err, None, FALSE)
     ELSE IF Truthy(r.out) THEN Moved(c, "done", rows, Ok, r.out, FALSE)
     ELSE Moved(c, "insert", rows, Ok, None, FALSE)

RaceLookup ==
  /\ procs # <<>>
  /\ \E c \in Callers :
       /\ procs[c].pc = "lookup"
       /\ RaceLooked(c, get_pk(table_id, rows, Table, procs[c].ident,
                               procs[c].return_obj, FALSE))
  /\ UNCHANGED <<cols, rows, paramstyle, last, calls, fs, pg, lastOpen, cur,
                 parked>>

\* defaults.update(ident); do_query(cur, "insert into ...", ...)
RaceInserted(c, ins) ==
  /\ rows' = ins.rows
  /\ IF ins.err # Ok
     THEN Moved(c, "done", procs[c].saw, ins.err, None, FALSE)
     ELSE Moved(c, "relookup", procs[c].saw, Ok, None, FALSE)

RaceInsert ==
  /\ procs # <<>>
  /\ \E c \in Callers :
       /\ procs[c].pc = "insert"
       /\ RaceInserted(c, do_query(
            InsertQuery(Table, Update(procs[c].defaults, procs[c].ident)),
            ValSeq(Update(procs[c].defaults, procs[c].ident)), rows))
  /\ UNCHANGED <<cols, table_id, paramstyle, last, calls, fs, pg, lastOpen,
                 cur, parked>>

\* return get_pk(cur, table, defaults, return_obj=return_obj), True
RaceRelooked(c, r) ==
  /\ table_id' = r.cache
  /\ Moved(c, "done", procs[c].saw, r.err, r.out, r.err = Ok)

RaceRelookup ==
  /\ procs # <<>>
  /\ \E c \in Callers :
       /\ procs[c].pc = "relookup"
       /\ RaceRelooked(c, get_pk(table_id, rows, Table,
                                 Update(procs[c].defaults, procs[c].ident),
                                 procs[c].return_obj, FALSE))
  /\ UNCHANGED <<cols, rows, paramstyle, last, calls, fs, pg, lastOpen, cur,
                 parked>>

NextRace ==
  \/ RaceStart
  \/ RaceLookup
  \/ RaceInsert
  \/ RaceRelookup

SpecRace == Init /\ [][NextRace]_vars

\* ------------------------------------------------------ what a filter means
\* A row satisfies a filter when every field of the filter equals the row's
\* column, a null field matching a null column.
Satisfies(r, ident) ==
  \A i \in 1..Len(ident) : r[ident[i][1]] = ident[i][2]

Matching(rs, ident) == {r \in rs : Satisfies(r, ident)}

\* the row r as the record a lookup returns for it
AsRecord(r) == [j \in 1..Len(cols) |-> <<cols[j], r[cols[j]]>>]

\* the value a single-row call returns for the row r
Returned(r, return_obj) ==
  IF return_obj THEN RecValue(AsRecord(r)) ELSE PkValue(r[PkCol])

SingleLookup == last.op \in {"get_pk", "get_rec"} /\ ~last.multi
MultiLookup == last.op \in {"get_pks", "get_recs"}

\* ------------------------------------------------------------- properties
\* C1: get_or_make_pk / get_or_make_rec called twice with the same identifying
\* fields: when the first call returned a value, the second returns that same
\* value, reports that nothing was created, and leaves the table as it was.
C1_SecondCallFinds ==
  (last.op \in Makers /\ last.again /\ last.first.err = Ok
     /\ last.first.out # None)
    => /\ last.err = Ok
       /\ last.out = last.first.out
       /\ ~last.created
       /\ rows = last.before

\* the filters of the counted calls are pairwise distinct as mappings
DistinctFilters ==
  \A i, j \in 1..Len(calls) :
    i # j => Range(calls[i].ident) # Range(calls[j].ident)

\* every counted call filters on the same non-empty set of columns, the
\* identity column is not among them, and no defaults set it
SameColumns ==
  \A i \in 1..Len(calls) :
    /\ Keys(calls[i].ident) = Keys(calls[1].ident)
    /\ Keys(calls[i].ident) # {}
    /\ PkCol \notin Keys(calls[i].ident)
    /\ PkCol \notin Keys(calls[i].defaults)

\* C2 as stated: from an empty table, N get_or_make calls with N pairwise
\* distinct filters, none of which raised, leave exactly N rows.
C2_DistinctFiltersCount ==
  (DistinctFilters /\ \A i \in 1..Len(calls) : calls[i].err = Ok)
    => Cardinality(rows) = Len(calls)

\* C2: from an empty table, N get_or_make calls whose filters are pairwise
\* distinct and name the same non-empty set of non-identity columns, with
\* defaults that leave the identity column alone, leave exactly N rows, every
\* call having created one.
C2_SameColumnsCount ==
  (DistinctFilters /\ SameColumns)
    => /\ Cardinality(rows) = Len(calls)
       /\ \A i \in 1..Len(calls) : calls[i].err = Ok /\ calls[i].created

C2_Witness ==
  /\ Len(calls) = MaxCalls
  /\ DistinctFilters
  /\ SameColumns
  /\ Cardinality(rows) = MaxCalls

\* C3: a single-row lookup (get_pk / get_rec without multi) whose filter is
\* satisfied by more than one row raises and returns nothing.
C3_AmbiguousRaises ==
  (SingleLookup /\ Cardinality(Matching(rows, last.ident)) > 1)
    => /\ last.err = MoreThanOne
       /\ last.out = None

C3_Witness ==
  /\ SingleLookup
  /\ last.ident # <<>>
  /\ Cardinality(Matching(rows, last.ident)) > 1
  /\ last.err = MoreThanOne

\* the identities, or the records, of the rows rs
Expected(rs, return_obj) ==
  IF return_obj THEN {AsRecord(r) : r \in rs} ELSE {r[PkCol] : r \in rs}

\* out is a list holding each of the rows rs exactly once
ListsExactly(out, rs, return_obj) ==
  /\ out.kind = (IF return_obj THEN "recs" ELSE "pks")
  /\ Len(out.items) = Cardinality(rs)
  /\ Range(out.items) = Expected(rs, return_obj)

\* C4 as stated: get_pks / get_recs return the list of the identities or
\* records of exactly the rows satisfying the filter, all rows when the filter
\* is absent or empty.
C4_AlwaysAList ==
  MultiLookup
    => /\ last.err = Ok
       /\ ListsExactly(last.out, Matching(rows, last.ident), last.return_obj)

\* C4: get_pks / get_recs never raise for a row count; when at least one row
\* satisfies the filter (every row does when it is absent or empty) they
\* return the list of exactly those rows' identities or records, each once;
\* when none does they return None.
C4_ListOrNone ==
  MultiLookup
    => /\ last.err = Ok
       /\ IF Matching(rows, last.ident) = {}
          THEN last.out = None
          ELSE ListsExactly(last.out, Matching(rows, last.ident),
                            last.return_obj)

C4_Witness ==
  /\ MultiLookup
  /\ last.absent
  /\ last.err = Ok
  /\ last.out # None
  /\ Len(last.out.items) = MaxRows

\* C5: a single-row lookup that no row satisfies returns None without raising;
\* one that exactly one row satisfies returns that row's identity or record,
\* which is never None.
C5_NoneIffNoRow ==
  SingleLookup
    => /\ Matching(rows, last.ident) = {}
         => (last.err = Ok /\ last.out = None)
       /\ Cardinality(Matching(rows, last.ident)) = 1
         => /\ last.err = Ok
            /\ last.out # None
            /\ last.out = Returned(CHOOSE r \in Matching(rows, last.ident) : TRUE,
                                   last.return_obj)

C5_Witness ==
  /\ SingleLookup
  /\ rows # {}
  /\ last.ident # <<>>
  /\ Matching(rows, last.ident) = {}
  /\ last.out = None

\* C6: in the query a lookup issues, a null filter field becomes an `is null`
\* test without a placeholder and any other field an equality with one; the
\* values bound are the non-null filter values in filter order, one per
\* placeholder; and the rows fetched are exactly those satisfying the filter.
C6_NullAwareFilter ==
  last.op \in Lookups
    => /\ Len(last.q.where) = Len(last.ident)
       /\ \A i \in 1..Len(last.ident) :
            /\ last.q.where[i].col = last.ident[i][1]
            /\ IF last.ident[i][2] = NULL
               THEN last.q.where[i].op = "is null" /\ last.q.where[i].mark = ""
               ELSE last.q.where[i].op = "=" /\ last.q.where[i].mark # ""
       /\ last.vals = SelectSeq(ValSeq(last.ident), LAMBDA v : v # NULL)
       /\ Len(Marks(last.q)) = Len(last.vals)
       /\ last.err \in {Ok, MoreThanOne}
       /\ Len(last.ans) = Cardinality(Matching(rows, last.ident))
       /\ {Get(last.ans[i], table_id[Table]) : i \in 1..Len(last.ans)}
            = {r[PkCol] : r \in Matching(rows, last.ident)}

C6_Witness ==
  /\ last.op \in Lookups
  /\ Len(last.ident) = 2
  /\ last.ident[1][2] = NULL
  /\ last.ident[2][2] # NULL
  /\ Len(last.ans) = 1
  /\ Cardinality(rows) = MaxRows

\* save_rec called the way the table's layout asks for: without the table
\* argument when the identity column is named after the table, with it when
\* the identity column is id
ProperSave ==
  \/ PkCol = Table /\ last.hint = ""
  \/ PkCol = "id" /\ last.hint = Table

\* C7: a record read from the table, changed in a field other than the
\* identity and saved, reads back by its identity equal to the saved record.
C7_SaveRoundTrip ==
  (last.op = "save_rec" /\ ProperSave /\ last.field # PkCol)
    => /\ last.err = Ok
       /\ get_rec(table_id, rows, Table, <<<<PkCol, Get(last.rec, PkCol)>>>>,
                  FALSE).out = RecValue(last.rec)

C7_Witness ==
  /\ last.op = "save_rec"
  /\ ProperSave
  /\ last.field \in ColSet \ {PkCol}
  /\ last.rec # last.read
  /\ last.err = Ok
  /\ rows # last.before

\* the statements executed so far on the database the last open addressed
ExecutedOnTarget ==
  IF lastOpen.backend = "sqlite" THEN fs[lastOpen.dbpath].executed
  ELSE pg.executed

\* C8: the schema statements run, in order, exactly once, on the open that
\* creates the database; an open of a database that already exists runs none.
C8_SchemaOnce ==
  /\ \A p \in Paths : fs[p].executed \in Schemas
  /\ pg.executed \in Schemas
  /\ lastOpen.op = "get_con_cur"
       => /\ lastOpen.existed => ExecutedOnTarget = lastOpen.before
          /\ (~lastOpen.existed /\ lastOpen.err = Ok)
               => ExecutedOnTarget = lastOpen.before \o lastOpen.schema

C8_Witness ==
  /\ lastOpen.op = "get_con_cur"
  /\ lastOpen.existed
  /\ lastOpen.schema = DB_SQL
  /\ lastOpen.before = DB_SQL
  /\ lastOpen.err = Ok
  /\ ExecutedOnTarget = DB_SQL

\* C9: a read-only open of a file that does not exist fails before any
\* connection is made, creates no file and runs no schema statement.
C9_ReadOnlyNeverCreates ==
  (lastOpen.op = "get_con_cur" /\ lastOpen.backend = "sqlite"
     /\ lastOpen.read_only /\ ~lastOpen.existed)
    => /\ lastOpen.err = ReadOnlyMissing
       /\ ~lastOpen.connected
       /\ ~fs[lastOpen.dbpath].exists
       /\ fs[lastOpen.dbpath].executed = <<>>

C9_Witness ==
  /\ lastOpen.op = "get_con_cur"
  /\ lastOpen.backend = "sqlite"
  /\ lastOpen.read_only
  /\ lastOpen.schema = DB_SQL
  /\ lastOpen.err = ReadOnlyMissing
  /\ ~fs[lastOpen.dbpath].exists

\* the fields get_or_make_pk inserts: the defaults overlaid with the filter
Merged == Update(last.defaults, last.ident)

\* the row new holds the merged fields, null in every other column
HoldsMerged(new) ==
  \A c \in ColSet \ {PkCol} :
    new[c] = (IF HasKey(Merged, c) THEN Get(Merged, c) ELSE NULL)

\* get_or_make when no row satisfies the filter and the merged fields are not
\* empty and leave the identity to the database: one row is inserted from the
\* merged fields, and the call returns it and reports the creation
C10_Creates ==
  (last.op \in Makers /\ Matching(last.before, last.ident) = {}
     /\ Merged # <<>> /\ ~HasKey(Merged, PkCol))
    => /\ last.err = Ok
       /\ last.created
       /\ \E new \in rows :
            /\ new \notin last.before
            /\ rows = last.before \cup {new}
            /\ HoldsMerged(new)
            /\ last.out = Returned(new, last.return_obj)

\* get_or_make when exactly one row satisfies the filter: that row is
\* returned, nothing is created, the table is unchanged
C10_Finds ==
  (last.op \in Makers /\ Cardinality(Matching(last.before, last.ident)) = 1)
    => /\ last.err = Ok
       /\ ~last.created
       /\ rows = last.before
       /\ last.out = Returned(CHOOSE r \in Matching(last.before, last.ident) : TRUE,
                              last.return_obj)

\* C10: get_or_make_pk / get_or_make_rec return the one row satisfying the
\* filter when there is one, creating nothing, and otherwise insert a row
\* from the defaults overlaid with the filter and return it as created.
C10_FindOrCreate == C10_Creates /\ C10_Finds

\* the statement of the last raw call was a select the store ran, and exactly
\* one row of the table satisfies its filter
OneRow ==
  /\ last.q.verb = "select"
  /\ last.raised = Ok
  /\ Cardinality(Matching(last.before, last.ident)) = 1

\* the mapping a select of the row r yields: every column, or the identity
\* column alone
Projected(r, return_obj) ==
  IF return_obj THEN AsRecord(r) ELSE <<<<PkCol, r[PkCol]>>>>

\* C11: do_one returns a mapping exactly when the statement is a select that
\* yielded one row, and the mapping is that row; for a select of no row or of
\* several rows, and for a statement that yields no rows at all, it raises an
\* error that names the query.
C11_ExactlyOneRow ==
  last.op = "do_one"
    => /\ last.err = Ok <=> OneRow
       /\ last.err = Ok
            => last.out = RecValue(Projected(
                 CHOOSE r \in Matching(last.before, last.ident) : TRUE,
                 last.return_obj))
       /\ (last.raised = Ok /\ ~OneRow)
            => /\ last.err = NotSingle
               /\ last.about = last.q
               /\ last.out = None

C11_Witness ==
  /\ last.op = "do_one"
  /\ last.q.verb = "select"
  /\ last.ident # <<>>
  /\ Cardinality(Matching(last.before, last.ident)) = MaxRows
  /\ last.err = NotSingle
  /\ last.about = last.q

RuleSays == IF "id" \in ColSet THEN "id" ELSE Table

\* C13: the first lookup on a table name resolves its identity column by the
\* rule (id if a column of that name exists, else the table's name) from the
\* table behind the cursor of that call; once resolved, the value is never
\* dropped or changed by any later step, and a later lookup projects that
\* cached column, whatever handle it is made on.
C13_ResolveOnce ==
  [][/\ Table \in DOMAIN table_id
          => /\ Table \in DOMAIN table_id'
             /\ table_id'[Table] = table_id[Table]
     /\ (Table \notin DOMAIN table_id /\ Table \in DOMAIN table_id')
          => table_id'[Table] = RuleSays
     /\ (last'.op \in Lookups /\ last' # last /\ Table \in DOMAIN table_id)
          => /\ ~last'.probed
             /\ last'.q.text[2] = (IF last'.return_obj THEN "*"
                                   ELSE table_id[Table])]_vars

C13_Witness ==
  /\ last.op \in Lookups
  /\ ~last.probed
  /\ cur # HeldPath
  /\ ~last.return_obj
  /\ last.q.text[2] = table_id[Table]

\* C14: for every table name and resolved identity column, a lookup with
\* return_obj issues exactly select * from <table>[ where <filter>]: only the
\* projected identity column is replaced by the star.
C14_SelectStar ==
  (last.op = "pk_text" /\ last.return_obj)
    => last.q = SelectSp \o Star \o SpFromSp \o last.table \o last.where

\* the row r of the table before the save is the one the saved record names
Addressed(r) ==
  /\ HasKey(last.rec, PkCol)
  /\ r[PkCol] = Get(last.rec, PkCol)

BothMissedThenInserted ==
  /\ procs # <<>>
  /\ \A c \in Callers :
       /\ procs[c].saw = {}
       /\ procs[c].pc \in {"relookup", "done"}
       /\ ~(procs[c].pc = "done" /\ ~procs[c].created /\ procs[c].err = Ok)

\* the fields the two callers insert leave the identity to the store
RaceFields == Update(procs[1].defaults, procs[1].ident)

\* C16: when the first lookups of two callers of get_or_make_pk with the same
\* filter both miss before either insert (the inserted fields not empty and
\* leaving the identity to the store), both inserts go through, two rows
\* satisfy the filter, a single-result lookup with the filter then raises the
\* ambiguity error, and once both callers have returned at least one of them
\* has been raised that error by its own second lookup.
C16_BothInsert ==
  (BothMissedThenInserted /\ RaceFields # <<>> /\ ~HasKey(RaceFields, PkCol))
    => /\ Cardinality(rows) = 2
       /\ Cardinality(Matching(rows, procs[1].ident)) = 2
       /\ get_pk(table_id, rows, Table, procs[1].ident, FALSE, FALSE).err
            = MoreThanOne
       /\ (\A c \in Callers : procs[c].pc = "done")
            => \E c \in Callers : procs[c].err = MoreThanOne

C16_Witness ==
  /\ BothMissedThenInserted
  /\ \A c \in Callers : procs[c].pc = "done"
  /\ procs[1].ident # <<>>
  /\ Cardinality(Matching(rows, procs[1].ident)) = 2
  /\ procs[1].err = MoreThanOne
  /\ procs[2].err = MoreThanOne

\* C17: every placeholder of the statement a lookup hands to the driver is
\* the mark of the backend behind the cursor of that call, whatever handles
\* were opened before.
C17_MarkFollowsHandle ==
  last.op \in Lookups
    => \A i \in 1..Len(Marks(Sent(last.q, paramstyle))) :
         Marks(Sent(last.q, paramstyle))[i] = native

\* C18: the identity column a lookup uses for the table is the one the
\* resolution rule gives on the table behind the cursor of that call.
C18_OwnIdentityColumn ==
  last.op \in Lookups
    => /\ table_id[Table] = RuleSays
       /\ ~last.return_obj => last.q.text[2] = RuleSays

====
